---- MODULE Spec2Model ----
(***************************************************************************)
(* Extraction-and-recovery pipeline of MultiModel-Doc:                     *)
(*   Qwen3VLClient.query            (src/src/models/qwen_client.py)        *)
(*   FastDocumentProcessor          (src/src/fast_processor.py)            *)
(*   SimpleDocumentProcessor        (src/src/simple_processor.py)          *)
(*                                                                         *)
(* Text is a sequence of tokens.  A token is a substring that every        *)
(* regular expression of the code and the JSON grammar treat as a unit:    *)
(* a brace, a think tag, a fence marker, a whitespace run, a prose run,    *)
(* a complete scalar member ("type":"invoice" with its separator), the     *)
(* key of a nested object ("key_data":), the opening of a string member    *)
(* ("main_content":") and the closing quote.  Separators between members   *)
(* are taken to be well placed.                                            *)
(***************************************************************************)
EXTENDS Integers, Sequences, FiniteSets, TLC

VARIABLES
    images,        \* process_document: number of pages handed in, len(images)
    pc,            \* position in process_document, or in the normalizer run
    i,             \* process_document: loop counter of enumerate(pages_to_process, 1)
    extractions,   \* process_document: the list of per-page records
    result,        \* process_document: the returned DocumentResult
    calls,         \* history: the page numbers qwen_client.query was invoked for
    responses,     \* history: the values qwen_client.query returned, in order
    kinds,         \* history: what each returned call had met (see Kind)
    raw,           \* normalizer run: the reply handed to _parse_json
    wrapped,       \* normalizer run: the JSON object the reply was built around, if any
    parsed         \* normalizer run: what _parse_json did with the reply

vars == <<images, pc, i, extractions, result, calls, responses, kinds, raw, wrapped, parsed>>

----------------------------------------------------------------------------
(* Python / JSON values, tagged so that values of different types compare. *)

Str(s) == <<"str", s>>
StrCut(s, tok, k) == <<"str", s, tok, k>>
Flt(h) == <<"num", h>>
PyInt(n) == <<"int", n>>
Bool(b) == <<"bool", b>>
Null == <<"null">>
Dict(d) == <<"dict", d>>

EmptyDict == <<>>
Put(d, k, v) == (k :> v) @@ d
HasKey(d, k) == k \in DOMAIN d

Return(v) == [raised |-> FALSE, val |-> v, exc |-> "", msg |-> ""]
Raise(e, m) == [raised |-> TRUE, val |-> EmptyDict, exc |-> e, msg |-> m]

----------------------------------------------------------------------------
(* Tokens.                                                                 *)

LB == "{"
RB == "}"
ThinkOpen == "<think>"
ThinkClose == "</think>"
FenceJson == "<fence>json"   \* the three-backtick marker followed by json
Fence == "<fence>"           \* the three-backtick marker
Ws == " "
Txt == "txt"
JsonWord == "json"
Quote == "\""

ScalarMembers ==
    << [tok |-> "\"type\":\"invoice\"",     k |-> "type",       v |-> Str(<<"invoice">>), len |-> 16],
       [tok |-> "\"type\":\"receipt\"",     k |-> "type",       v |-> Str(<<"receipt">>), len |-> 16],
       [tok |-> "\"confidence\":0.9",       k |-> "confidence", v |-> Flt(90),            len |-> 16],
       [tok |-> "\"confidence\":0.75",      k |-> "confidence", v |-> Flt(75),            len |-> 17],
       [tok |-> "\"confidence\":\"high\"",  k |-> "confidence", v |-> Str(<<"high">>),    len |-> 19],
       [tok |-> "\"confidence\":1.5",       k |-> "confidence", v |-> Flt(150),           len |-> 16],
       [tok |-> "\"document_type\":\"invoice\"", k |-> "document_type", v |-> Str(<<"invoice">>), len |-> 25],
       [tok |-> "\"document_type\":\"receipt\"", k |-> "document_type", v |-> Str(<<"receipt">>), len |-> 25],
       [tok |-> "\"page\":7",               k |-> "page",       v |-> PyInt(7),             len |-> 8],
       [tok |-> "\"success\":false",        k |-> "success",    v |-> Bool(FALSE),        len |-> 15] >>

ObjectKeys ==
    << [tok |-> "\"key_data\":", k |-> "key_data", len |-> 11],
       [tok |-> "\"amounts\":",  k |-> "amounts",  len |-> 10] >>

StringOpens ==
    << [tok |-> "\"main_content\":\"", k |-> "main_content", len |-> 16] >>

Range(f) == { f[x] : x \in DOMAIN f }
IsScalarMember(t) == \E m \in Range(ScalarMembers) : m.tok = t
IsObjectKey(t) == \E m \in Range(ObjectKeys) : m.tok = t
IsStringOpen(t) == \E m \in Range(StringOpens) : m.tok = t
Entry(table, t) == CHOOSE m \in Range(table) : m.tok = t

\* len() of one token, in characters
CharLen(t) ==
    IF IsScalarMember(t) THEN Entry(ScalarMembers, t).len
    ELSE IF IsObjectKey(t) THEN Entry(ObjectKeys, t).len
    ELSE IF IsStringOpen(t) THEN Entry(StringOpens, t).len
    ELSE CASE t = LB -> 1 [] t = RB -> 1 [] t = Quote -> 1 [] t = Ws -> 1
           [] t = ThinkOpen -> 7 [] t = ThinkClose -> 8
           [] t = FenceJson -> 7 [] t = Fence -> 3 [] t = JsonWord -> 4
           [] OTHER -> 120

RECURSIVE TextLen(_)
TextLen(s) == IF s = <<>> THEN 0 ELSE CharLen(Head(s)) + TextLen(Tail(s))

\* len() of a Python str value
StrLen(v) == TextLen(v[2]) + (IF Len(v) = 4 THEN v[4] ELSE 0)

Slice_Whole(s, n) == Str(s)

\* response[:n]
RECURSIVE Slice(_, _)
Slice(s, n) ==
    IF s = <<>> \/ n = 0 THEN Str(<<>>)
    ELSE IF CharLen(Head(s)) <= n
         THEN LET rest == Slice(Tail(s), n - CharLen(Head(s)))
              IN  IF Len(rest) = 4 THEN StrCut(<<Head(s)>> \o rest[2], rest[3], rest[4])
                  ELSE Str(<<Head(s)>> \o rest[2])
         ELSE StrCut(<<>>, Head(s), n)

----------------------------------------------------------------------------
(* FastDocumentProcessor._parse_json, fast_processor.py:79-102             *)

\* s without its leading whitespace run
RECURSIVE DropWs(_)
DropWs(s) == IF s # <<>> /\ Head(s) = Ws THEN DropWs(Tail(s)) ELSE s

\* index of the first t in s at or after j, 0 when there is none
RECURSIVE IndexFrom(_, _, _)
IndexFrom(s, t, j) ==
    IF j > Len(s) THEN 0 ELSE IF s[j] = t THEN j ELSE IndexFrom(s, t, j + 1)

StripThink_Kept(s) == s

\* re.sub(r'<think>.*?</think>', '', response, flags=re.DOTALL)
RECURSIVE StripThink(_)
StripThink(s) ==
    IF s = <<>> THEN <<>>
    ELSE LET close == IndexFrom(s, ThinkClose, 2)
         IN  IF Head(s) = ThinkOpen /\ close # 0
             THEN StripThink(SubSeq(s, close + 1, Len(s)))
             ELSE <<Head(s)>> \o StripThink(Tail(s))

\* re.sub(r'<fence>json\s*|\s*<fence>', '', response): at each position the first
\* alternative is tried before the second, so a whitespace run in front of a
\* json fence is removed with the marker alone and the word json stays.
RECURSIVE StripFences(_)
StripFences(s) ==
    IF s = <<>> THEN <<>>
    ELSE IF Head(s) = FenceJson THEN StripFences(DropWs(Tail(s)))
    ELSE IF Head(s) = Fence THEN StripFences(Tail(s))
    ELSE IF Head(s) = Ws
         THEN LET rest == DropWs(s)
                  run  == SubSeq(s, 1, Len(s) - Len(rest))
              IN  IF rest # <<>> /\ Head(rest) = Fence THEN StripFences(Tail(rest))
                  ELSE IF rest # <<>> /\ Head(rest) = FenceJson
                       THEN <<JsonWord>> \o StripFences(Tail(rest))
                  ELSE run \o StripFences(rest)
    ELSE <<Head(s)>> \o StripFences(Tail(s))

\* One attempt of r'\{[^{}]*(?:\{[^{}]*\}[^{}]*)*\}' from an opening brace: j is the
\* position reached, d the brace depth (1 or 2).  The index of the closing brace,
\* 0 when the attempt fails (a third level, or the end of the text).
RECURSIVE BraceScan(_, _, _)
BraceScan(s, j, d) ==
    IF j > Len(s) THEN 0
    ELSE IF s[j] = LB THEN (IF d = 1 THEN BraceScan(s, j + 1, 2) ELSE 0)
    ELSE IF s[j] = RB THEN (IF d = 2 THEN BraceScan(s, j + 1, 1) ELSE j)
    ELSE BraceScan(s, j + 1, d)

\* re.search(...): the leftmost opening brace from which the pattern matches
RECURSIVE SearchFrom(_, _)
SearchFrom(s, j) ==
    IF j > Len(s) THEN [found |-> FALSE, first |-> 0, last |-> 0]
    ELSE IF s[j] = LB /\ BraceScan(s, j + 1, 1) # 0
         THEN [found |-> TRUE, first |-> j, last |-> BraceScan(s, j + 1, 1)]
         ELSE SearchFrom(s, j + 1)

ReSearch(s) == SearchFrom(s, 1)

\* json.loads on a span that starts with an opening brace.  A string runs to the
\* next quote character, and every member, key and string-opening token holds one.
HoldsQuote(t) == t = Quote \/ IsScalarMember(t) \/ IsObjectKey(t) \/ IsStringOpen(t)

RECURSIVE QuoteFrom(_, _)
QuoteFrom(s, j) ==
    IF j > Len(s) THEN 0 ELSE IF HoldsQuote(s[j]) THEN j ELSE QuoteFrom(s, j + 1)

JsonFail == [ok |-> FALSE, val |-> EmptyDict, next |-> 0]

RECURSIVE JsonMembers(_, _, _)
JsonMembers(s, j, acc) ==
    IF j > Len(s) THEN JsonFail
    ELSE LET t == s[j] IN
         IF t = RB THEN [ok |-> TRUE, val |-> acc, next |-> j + 1]
         ELSE IF t = Ws THEN JsonMembers(s, j + 1, acc)
         ELSE IF IsScalarMember(t)
              THEN JsonMembers(s, j + 1, Put(acc, Entry(ScalarMembers, t).k, Entry(ScalarMembers, t).v))
         ELSE IF IsObjectKey(t)
              THEN LET b == j + 1 + (Len(SubSeq(s, j + 1, Len(s))) - Len(DropWs(SubSeq(s, j + 1, Len(s)))))
                   IN  IF b > Len(s) THEN JsonFail
                       ELSE IF s[b] = Quote
                            THEN \* the key is followed by a string, not by an object
                                 LET q == QuoteFrom(s, b + 1)
                                 IN  IF q = 0 \/ s[q] # Quote THEN JsonFail
                                     ELSE JsonMembers(s, q + 1,
                                              Put(acc, Entry(ObjectKeys, t).k, Str(SubSeq(s, b + 1, q - 1))))
                       ELSE IF s[b] # LB THEN JsonFail
                       ELSE LET inner == JsonMembers(s, b + 1, EmptyDict)
                            IN  IF inner.ok
                                THEN JsonMembers(s, inner.next, Put(acc, Entry(ObjectKeys, t).k, Dict(inner.val)))
                                ELSE JsonFail
         ELSE IF IsStringOpen(t)
              THEN LET q == QuoteFrom(s, j + 1)
                   IN  IF q = 0 \/ s[q] # Quote THEN JsonFail
                       ELSE JsonMembers(s, q + 1,
                                Put(acc, Entry(StringOpens, t).k, Str(SubSeq(s, j + 1, q - 1))))
         ELSE JsonFail

JsonLoads(s) ==
    IF s = <<>> \/ Head(s) # LB THEN JsonFail
    ELSE LET r == JsonMembers(s, 2, EmptyDict)
         IN  IF r.ok /\ r.next = Len(s) + 1 THEN r ELSE JsonFail

_parse_json(resp) ==
    IF resp[1] # "str"
    THEN \* re.sub raises TypeError; the handler's response[:200] raises it again
         Raise("TypeError", "'NoneType' object is not subscriptable")
    ELSE LET cleaned == StripFences(StripThink(resp[2]))
             m == ReSearch(cleaned)
             loaded == JsonLoads(SubSeq(cleaned, m.first, m.last))
         IN  IF m.found
             THEN IF loaded.ok THEN Return(loaded.val)
                  ELSE Return(Put(Put(Put(EmptyDict, "type", Str(<<"document">>)),
                                      "confidence", Flt(50)), "raw", Slice(cleaned, 200)))
             ELSE Return(Put(Put(Put(EmptyDict, "type", Str(<<"document">>)),
                                 "confidence", Flt(60)), "main_content", Slice(cleaned, 200)))

----------------------------------------------------------------------------
(* Qwen3VLClient.query, qwen_client.py:59-163.  One call meets one behaviour *)
(* of its surroundings: whether the image encodes, what the transport does,  *)
(* what shape the body has and what the message content is.                  *)

List(q) == <<"list", q>>

\* text is the text of the exception the transport raises, which the library
\* chooses; "" stands for the text it usually gives
Env(encode, transport, body, content) ==
    [encode |-> encode, transport |-> transport, body |-> body, content |-> content, text |-> ""]

Saying(env, text) == [env EXCEPT !.text = text]
Text(env, usual) == IF env.text = "" THEN usual ELSE env.text

\* what the request met: the step of the try block that did not go through
Kind(env) ==
    IF env.encode # "ok" THEN "Encoding"
    ELSE IF env.transport = "timeout" THEN "Timeout"
    ELSE IF env.transport # "ok" THEN "TransportError"
    ELSE IF env.body # "choices" THEN "UnexpectedFormat"
    ELSE "none"

\* _image_to_base64 logs and re-raises whatever the conversion raised
_image_to_base64(env) ==
    IF env.encode = "unsupported"
    THEN Raise("ValueError", "Unsupported image input type")
    ELSE Return(EmptyDict)

Failure(reason) ==
    Put(Put(Put(EmptyDict, "success", Bool(FALSE)), "content", Str(<<>>)), "error", Str(<<reason>>))

\* lines 126-132; raw_response, the body itself, is left out
Success(content) ==
    Put(Put(Put(Put(EmptyDict, "success", Bool(TRUE)), "content", content),
            "model", Str(<<"qwen3vl-4b">>)), "usage", Dict(EmptyDict))

\* the body of the try block, lines 82-139
QueryTry(env) ==
    IF _image_to_base64(env).raised THEN _image_to_base64(env)
    ELSE IF env.transport = "timeout" THEN Raise("Timeout", "Read timed out")
    ELSE IF env.transport = "connection" THEN Raise("ConnectionError", Text(env, "Connection refused"))
    ELSE IF env.transport = "http" THEN Raise("HTTPError", "500 Server Error")
    ELSE IF env.body = "nojson" THEN Raise("JSONDecodeError", "Expecting value")
    ELSE IF env.body = "notdict" THEN Raise("TypeError", "argument of type 'int' is not iterable")
    ELSE IF env.body \in {"nochoices", "emptychoices"} THEN Return(Failure("Unexpected response format"))
    ELSE IF env.body = "nomessage" THEN Raise("KeyError", "'message'")
    ELSE IF env.body = "nocontent" THEN Raise("KeyError", "'content'")
    ELSE Return(Success(env.content))

\* exception classes: requests.exceptions.Timeout is a RequestException, and
\* every class below is an Exception
IsTimeout(e) == e = "Timeout"
IsRequestException(e) == e \in {"Timeout", "ConnectionError", "HTTPError", "JSONDecodeError"}
IsException(e) == e \in {"Timeout", "ConnectionError", "HTTPError", "JSONDecodeError",
                         "ValueError", "TypeError", "KeyError"}

QueryHandlers_NoCatchAll(r) ==
    IF ~r.raised THEN r
    ELSE IF IsTimeout(r.exc) THEN Return(Failure("Request timeout"))
    ELSE IF IsRequestException(r.exc) THEN Return(Failure(r.msg))
    ELSE r

\* the except clauses, lines 141-163, in their order
QueryHandlers(r) ==
    IF ~r.raised THEN r
    ELSE IF IsTimeout(r.exc) THEN Return(Failure("Request timeout"))
    ELSE IF IsRequestException(r.exc) THEN Return(Failure(r.msg))
    ELSE IF IsException(r.exc) THEN Return(Failure(r.msg))
    ELSE r

query(env) == QueryHandlers(QueryTry(env))

----------------------------------------------------------------------------
(* FastDocumentProcessor, fast_processor.py:21-128                           *)

Get(d, k, default) == IF k \in DOMAIN d THEN d[k] ELSE default
Truthy(v) == v = Bool(TRUE)

FailedPage(resp, page_num) ==
    Put(Put(Put(Put(Put(EmptyDict,
        "page", PyInt(page_num)),
        "success", Bool(FALSE)),
        "error", Get(resp, "error", Str(<<"Unknown error">>))),
        "type", Str(<<"unknown">>)),
        "confidence", Flt(0))

_extract_page_fast_ModelKeysWin(resp, page_num) ==
    IF Truthy(resp["success"])
    THEN LET p == _parse_json(resp["content"])
         IN  IF p.raised THEN p
             ELSE Return(p.val @@ Put(Put(EmptyDict, "page", PyInt(page_num)), "success", Bool(TRUE)))
    ELSE Return(FailedPage(resp, page_num))

_extract_page_fast_RaiseOnFailure(resp, page_num) ==
    IF Truthy(resp["success"])
    THEN LET p == _parse_json(resp["content"])
         IN  IF p.raised THEN p
             ELSE Return(Put(Put(p.val, "page", PyInt(page_num)), "success", Bool(TRUE)))
    ELSE Raise("RuntimeError", resp["error"][2][1])

\* lines 58-77: what the page extractor does with the gateway's answer
_extract_page_fast(resp, page_num) ==
    IF Truthy(resp["success"])
    THEN LET p == _parse_json(resp["content"])
         IN  IF p.raised THEN p
             ELSE Return(Put(Put(p.val, "page", PyInt(page_num)), "success", Bool(TRUE)))
    ELSE Return(FailedPage(resp, page_num))

RECURSIVE FirstType_AnyRecord(_)
FirstType_AnyRecord(exts) ==
    IF exts = <<>> THEN Str(<<"document">>)
    ELSE IF HasKey(Head(exts), "type") THEN Head(exts)["type"]
         ELSE FirstType_AnyRecord(Tail(exts))

\* lines 107-112: the type of the first record with a true success and a type key
RECURSIVE FirstType(_)
FirstType(exts) ==
    IF exts = <<>> THEN Str(<<"document">>)
    ELSE IF Truthy(Get(Head(exts), "success", Null)) /\ HasKey(Head(exts), "type")
         THEN Head(exts)["type"]
         ELSE FirstType(Tail(exts))

RECURSIVE Confidences_AllPages(_)
Confidences_AllPages(exts) ==
    IF exts = <<>> THEN <<>>
    ELSE <<Get(Head(exts), "confidence", Flt(50))>> \o Confidences_AllPages(Tail(exts))

\* line 115: [e.get('confidence', 0.5) for e in extractions if e.get('success')]
RECURSIVE Confidences(_)
Confidences(exts) ==
    IF exts = <<>> THEN <<>>
    ELSE IF Truthy(Get(Head(exts), "success", Null))
         THEN <<Get(Head(exts), "confidence", Flt(50))>> \o Confidences(Tail(exts))
         ELSE Confidences(Tail(exts))

\* what sum() can add: float, int and bool; in hundredths
IsNumber(v) == v[1] \in {"num", "int", "bool"}
Hundredths(v) == IF v[1] = "num" THEN v[2]
                 ELSE IF v[1] = "int" THEN 100 * v[2]
                 ELSE IF v[2] THEN 100 ELSE 0

RECURSIVE SumHundredths(_)
SumHundredths(cs) == IF cs = <<>> THEN 0 ELSE Hundredths(Head(cs)) + SumHundredths(Tail(cs))

\* round(total / n, 2) in hundredths; a tie goes to the even neighbour
Round2(total, n) ==
    LET q == total \div n
        r == total % n
    IN  IF 2 * r < n THEN q
        ELSE IF 2 * r > n THEN q + 1
        ELSE IF q % 2 = 0 THEN q ELSE q + 1

\* lines 114-116 and 122
AvgConf(cs) ==
    IF cs = <<>> THEN Return(Flt(60))
    ELSE IF \E k \in DOMAIN cs : ~IsNumber(cs[k])
         THEN Raise("TypeError", "unsupported operand type(s) for +")
         ELSE Return(Flt(Round2(SumHundredths(cs), Len(cs))))

Note_FromThree(total_pages) ==
    IF total_pages >= 3 THEN Str(<<"Fast mode - first 3 pages only">>) ELSE Str(<<"Fast mode">>)

\* line 127
Note(total_pages) ==
    IF total_pages > 3 THEN Str(<<"Fast mode - first 3 pages only">>) ELSE Str(<<"Fast mode">>)

_combine_simple(exts, total_pages) ==
    LET avg == AvgConf(Confidences(exts))
    IN  IF avg.raised THEN avg
        ELSE Return(
            Put(Put(Put(Put(Put(Put(Put(EmptyDict,
                "document_type", FirstType(exts)),
                "total_pages", PyInt(total_pages)),
                "processed_pages", PyInt(Len(exts))),
                "confidence", avg.val),
                "extracted_content", Dict(Put(EmptyDict, "pages", List(exts)))),
                "status", Str(<<"success">>)),
                "note", Note(total_pages)))

Min(a, b) == IF a < b THEN a ELSE b

PagesToProcess_FirstOnly(n) == Min(1, n)

\* line 27: len(images[:min(3, len(images))])
PagesToProcess(n) == Min(Min(3, n), n)

----------------------------------------------------------------------------
(* Inputs                                                                    *)

MaxPages == 4

TInvoice == "\"type\":\"invoice\""
TReceipt == "\"type\":\"receipt\""
C90 == "\"confidence\":0.9"
C75 == "\"confidence\":0.75"
CHigh == "\"confidence\":\"high\""
C150 == "\"confidence\":1.5"
Page7 == "\"page\":7"
DTInvoice == "\"document_type\":\"invoice\""
DTReceipt == "\"document_type\":\"receipt\""
SuccessFalse == "\"success\":false"
KeyData == "\"key_data\":"
Amounts == "\"amounts\":"
MainContent == "\"main_content\":\""

\* message contents the endpoint answers with
Replies ==
    { Str(<<LB, TInvoice, C90, RB>>),
      Str(<<FenceJson, Ws, LB, TReceipt, C75, RB, Ws, Fence>>),
      Str(<<ThinkOpen, Txt, ThinkClose, LB, TInvoice, RB>>),
      Str(<<LB, C90, RB>>),
      Str(<<Txt, Txt>>),
      Str(<<LB, Txt, RB>>),
      Str(<<LB, TInvoice, CHigh, RB>>),
      Str(<<LB, TReceipt, C75, Page7, SuccessFalse, RB>>),
      Str(<<LB, TInvoice, C150, RB>>),
      Null }

Envs ==
    { Env("ok", "ok", "choices", c) : c \in Replies }
    \cup { Env("unsupported", "ok", "choices", Null) }
    \cup { Env("ok", t, "choices", Null) : t \in {"timeout", "connection", "http"} }
    \cup { Saying(Env("ok", "connection", "choices", Null), "'message'") }
    \cup { Env("ok", "ok", b, Null) :
             b \in {"nojson", "notdict", "nochoices", "emptychoices", "nomessage", "nocontent"} }

----------------------------------------------------------------------------
(* process_document, fast_processor.py:21-39, one step per gateway call      *)

NoJson == <<"none">>

Init ==
    /\ images \in 0..MaxPages
    /\ pc = "loop"
    /\ i = 0
    /\ extractions = <<>>
    /\ result = EmptyDict
    /\ calls = <<>>
    /\ responses = <<>>
    /\ kinds = <<>>
    /\ raw = Null
    /\ wrapped = NoJson
    /\ parsed = Return(EmptyDict)

\* lines 30-32 and 58: the next page is taken and its gateway call is issued
Call ==
    /\ pc = "loop"
    /\ i < PagesToProcess(images)
    /\ i' = i + 1
    /\ calls' = Append(calls, i + 1)
    /\ pc' = "query"
    /\ UNCHANGED <<images, extractions, result, responses, kinds, raw, wrapped, parsed>>

\* lines 58-77 and 33: the call returns and the page's record is appended
Reply ==
    /\ pc = "query"
    /\ \E env \in Envs :
         LET r == query(env) IN
         IF r.raised
         THEN /\ pc' = "raised"
              /\ UNCHANGED <<responses, kinds, extractions>>
         ELSE LET ext == _extract_page_fast(r.val, i) IN
              /\ responses' = Append(responses, r.val)
              /\ kinds' = Append(kinds, Kind(env))
              /\ IF ext.raised
                 THEN pc' = "raised" /\ UNCHANGED extractions
                 ELSE pc' = "loop" /\ extractions' = Append(extractions, ext.val)
    /\ UNCHANGED <<images, i, result, calls, raw, wrapped, parsed>>

\* lines 36-39: the records are combined and the result is returned
Combine ==
    /\ pc = "loop"
    /\ i = PagesToProcess(images)
    /\ LET c == _combine_simple(extractions, images) IN
       IF c.raised
       THEN pc' = "raised" /\ UNCHANGED result
       ELSE pc' = "done" /\ result' = c.val
    /\ UNCHANGED <<images, i, extractions, calls, responses, kinds, raw, wrapped, parsed>>

Next == Call \/ Reply \/ Combine

Spec == Init /\ [][Next]_vars

----------------------------------------------------------------------------
(* The normalizer on its own: one reply, one call of _parse_json.            *)

MaxTextLen == 3
MaxDepth == 2

Alphabet ==
    { LB, RB, ThinkOpen, ThinkClose, FenceJson, Fence, Ws, Txt, Quote,
      TInvoice, C90, KeyData, MainContent }

RECURSIVE TextsOfLen(_)
TextsOfLen(n) ==
    IF n = 0 THEN { <<>> }
    ELSE { <<t>> \o s : t \in Alphabet, s \in TextsOfLen(n - 1) }

ShortTexts == UNION { TextsOfLen(n) : n \in 0..MaxTextLen }

LongTexts == { <<LB, Txt, RB, Txt>>, <<Txt, LB, Txt, Txt>>, <<LB, TInvoice, LB, Txt, Txt, RB>> }

\* Well-formed JSON objects with their text.  body is the text between the braces.
FlatObjects ==
    { [val |-> EmptyDict, body |-> <<>>],
      [val |-> Put(Put(EmptyDict, "type", Str(<<"invoice">>)), "confidence", Flt(90)),
       body |-> <<TInvoice, C90>>],
      [val |-> Put(EmptyDict, "type", Str(<<"receipt">>)), body |-> <<TReceipt>>],
      [val |-> Put(EmptyDict, "main_content", Str(<<Txt>>)), body |-> <<MainContent, Txt, Quote>>],
      [val |-> Put(EmptyDict, "main_content", Str(<<RB>>)), body |-> <<MainContent, RB, Quote>>],
      [val |-> Put(EmptyDict, "main_content", Str(<<Txt, Fence>>)),
       body |-> <<MainContent, Txt, Fence, Quote>>],
      [val |-> Put(EmptyDict, "main_content", Str(<<ThinkOpen, Txt, ThinkClose>>)),
       body |-> <<MainContent, ThinkOpen, Txt, ThinkClose, Quote>>] }

RECURSIVE JsonObjects(_)
JsonObjects(depth) ==
    IF depth = 0 THEN FlatObjects
    ELSE FlatObjects \cup
         { [val |-> Put(f.val, "key_data", Dict(inner.val)),
            body |-> f.body \o <<KeyData, LB>> \o inner.body \o <<RB>>] :
           f \in FlatObjects, inner \in JsonObjects(depth - 1) }

JsonText(o) == <<LB>> \o o.body \o <<RB>>

Wrappings == { "bare", "fence_json", "fence", "think", "think_fence" }

Wrap(w, t) ==
    CASE w = "bare" -> t
      [] w = "fence_json" -> <<FenceJson, Ws>> \o t \o <<Ws, Fence>>
      [] w = "fence" -> <<Fence, Ws>> \o t \o <<Ws, Fence>>
      [] w = "think" -> <<ThinkOpen, Txt, LB, TReceipt, RB, ThinkClose>> \o t
      [] w = "think_fence" -> <<ThinkOpen, Txt, ThinkClose, Ws, FenceJson, Ws>> \o t \o <<Ws, Fence>>

InitNorm ==
    /\ images = 0 /\ i = 0 /\ extractions = <<>> /\ result = EmptyDict
    /\ calls = <<>> /\ responses = <<>> /\ kinds = <<>>
    /\ pc = "parse"
    /\ parsed = Return(EmptyDict)
    /\ \/ /\ raw \in { Str(t) : t \in ShortTexts \cup LongTexts } \cup Replies
          /\ wrapped = NoJson
       \/ \E o \in JsonObjects(MaxDepth), w \in Wrappings :
            /\ raw = Str(Wrap(w, JsonText(o)))
            /\ wrapped = Dict(o.val)

Normalize ==
    /\ pc = "parse"
    /\ parsed' = _parse_json(raw)
    /\ pc' = "parsed"
    /\ UNCHANGED <<images, i, extractions, result, calls, responses, kinds, raw, wrapped>>

NextNorm == Normalize

SpecNorm == InitNorm /\ [][NextNorm]_vars

----------------------------------------------------------------------------
(* SimpleDocumentProcessor, simple_processor.py:21-141 (the thorough profile) *)

\* re.sub(r'<fence>json\s*', '', response)
RECURSIVE StripJsonFences(_)
StripJsonFences(s) ==
    IF s = <<>> THEN <<>>
    ELSE IF Head(s) = FenceJson THEN StripJsonFences(DropWs(Tail(s)))
    ELSE <<Head(s)>> \o StripJsonFences(Tail(s))

\* re.sub(r'<fence>\s*', '', response)
RECURSIVE StripPlainFences(_)
StripPlainFences(s) ==
    IF s = <<>> THEN <<>>
    ELSE IF Head(s) = Fence THEN StripPlainFences(DropWs(Tail(s)))
    ELSE <<Head(s)>> \o StripPlainFences(Tail(s))

\* index of the last t in s, 0 when there is none
RECURSIVE LastIndex(_, _)
LastIndex(s, t) ==
    IF s = <<>> THEN 0 ELSE IF s[Len(s)] = t THEN Len(s) ELSE LastIndex(SubSeq(s, 1, Len(s) - 1), t)

\* re.search(r'\{.*\}', response, re.DOTALL): from the first opening brace to the
\* last closing brace
GreedySearch(s) ==
    LET a == IndexFrom(s, LB, 1)
        b == LastIndex(s, RB)
    IN  IF a # 0 /\ b > a THEN [found |-> TRUE, first |-> a, last |-> b]
        ELSE [found |-> FALSE, first |-> 0, last |-> 0]

\* lines 88-104; for a reply that is no text the first re.sub raises and the
\* handler returns the reply itself
_parse_response(resp) ==
    IF resp[1] # "str" THEN Return(Put(EmptyDict, "raw_content", resp))
    ELSE LET cleaned == StripThink(StripPlainFences(StripJsonFences(resp[2])))
             m == GreedySearch(cleaned)
             loaded == JsonLoads(SubSeq(cleaned, m.first, m.last))
         IN  IF m.found /\ loaded.ok THEN Return(loaded.val)
             ELSE Return(Put(EmptyDict, "raw_content", Str(cleaned)))

\* lines 75-84: the record _extract_all_pages appends for page i
ExtractedPage(resp, page_number) ==
    IF Truthy(resp["success"])
    THEN LET p == _parse_response(resp["content"])
         IN  IF p.raised THEN p ELSE Return(Put(p.val, "page_number", PyInt(page_number)))
    ELSE Return(Put(Put(EmptyDict, "page_number", PyInt(page_number)), "error", resp["error"]))

\* lines 106-116
_format_single_page(extraction) ==
    Return(
        Put(Put(Put(Put(Put(Put(EmptyDict,
            "document_type", Get(extraction, "document_type", Str(<<"unknown">>))),
            "total_pages", PyInt(1)),
            "confidence", Get(extraction, "confidence", Flt(70))),
            "extracted_content", Dict(extraction)),
            "processing_time", Str(<<"fast">>)),
            "status", Str(<<"success">>)))

\* line 125: [e.get('confidence', 0.5) for e in extractions if 'confidence' in e]
RECURSIVE ReportedConfidences(_)
ReportedConfidences(exts) ==
    IF exts = <<>> THEN <<>>
    ELSE IF HasKey(Head(exts), "confidence")
         THEN <<Head(exts)["confidence"]>> \o ReportedConfidences(Tail(exts))
         ELSE ReportedConfidences(Tail(exts))

\* total / n in hundredths, not rounded: a whole number of hundredths, or the
\* quotient with its remainder (the float's own rounding error is left out)
Mean(total, n) ==
    IF total % n = 0 THEN Flt(total \div n) ELSE <<"num", total \div n, total % n, n>>

\* line 126
PlainAvg(cs) ==
    IF cs = <<>> THEN Return(Flt(70))
    ELSE IF \E k \in DOMAIN cs : ~IsNumber(cs[k])
         THEN Raise("TypeError", "unsupported operand type(s) for +")
         ELSE Return(Mean(SumHundredths(cs), Len(cs)))

\* lines 118-141
_combine_pages(exts) ==
    IF exts = <<>> THEN Raise("IndexError", "list index out of range")
    ELSE LET doc_type == Get(exts[1], "document_type", Str(<<"unknown">>))
             avg == PlainAvg(ReportedConfidences(exts))
         IN  IF avg.raised THEN avg
             ELSE Return(
                 Put(Put(Put(Put(Put(Put(EmptyDict,
                     "document_type", doc_type),
                     "total_pages", PyInt(Len(exts))),
                     "confidence", avg.val),
                     "extracted_content",
                         Dict(Put(Put(EmptyDict, "document_type", doc_type), "pages", List(exts)))),
                     "processing_time", Str(<<"optimized">>)),
                     "status", Str(<<"success">>)))

\* line 35: f"{final_result.get('confidence', 0):.2f}" formats numbers only
LogConfidence(final_result) ==
    LET c == Get(final_result, "confidence", PyInt(0))
    IN  IF IsNumber(c) THEN Return(final_result)
        ELSE IF c[1] = "str" THEN Raise("ValueError", "Unknown format code 'f'")
        ELSE Raise("TypeError", "unsupported format string")

\* lines 30-37
Finish(n, exts) ==
    LET final_result == IF n = 1 THEN _format_single_page(exts[1]) ELSE _combine_pages(exts)
    IN  IF final_result.raised THEN final_result ELSE LogConfidence(final_result.val)

RepliesThorough ==
    { Str(<<LB, DTInvoice, TInvoice, C90, RB>>),
      Str(<<FenceJson, Ws, LB, DTReceipt, TReceipt, C75, RB, Ws, Fence>>),
      Str(<<LB, DTInvoice, TInvoice, RB>>),
      Str(<<Txt, Txt>>),
      Str(<<LB, DTInvoice, TInvoice, CHigh, RB>>) }

EnvsThorough ==
    { Env("ok", "ok", "choices", c) : c \in RepliesThorough }
    \cup { Env("ok", "timeout", "choices", Null), Env("ok", "ok", "nomessage", Null) }

\* lines 44 and 68: the next page is taken and its gateway call is issued
CallThorough ==
    /\ pc = "loop"
    /\ i < images
    /\ i' = i + 1
    /\ calls' = Append(calls, i + 1)
    /\ pc' = "query"
    /\ UNCHANGED <<images, extractions, result, responses, kinds, raw, wrapped, parsed>>

\* lines 68-84: the call returns and the page's record is appended
ReplyThorough ==
    /\ pc = "query"
    /\ \E env \in EnvsThorough :
         LET r == query(env) IN
         IF r.raised
         THEN /\ pc' = "raised"
              /\ UNCHANGED <<responses, kinds, extractions>>
         ELSE LET ext == ExtractedPage(r.val, i) IN
              /\ responses' = Append(responses, r.val)
              /\ kinds' = Append(kinds, Kind(env))
              /\ IF ext.raised
                 THEN pc' = "raised" /\ UNCHANGED extractions
                 ELSE pc' = "loop" /\ extractions' = Append(extractions, ext.val)
    /\ UNCHANGED <<images, i, result, calls, raw, wrapped, parsed>>

\* lines 30-37: the records are formatted or combined and the result is returned
FinishThorough ==
    /\ pc = "loop"
    /\ i = images
    /\ LET f == Finish(images, extractions) IN
       IF f.raised
       THEN pc' = "raised" /\ UNCHANGED result
       ELSE pc' = "done" /\ result' = f.val
    /\ UNCHANGED <<images, i, extractions, calls, responses, kinds, raw, wrapped, parsed>>

NextThorough == CallThorough \/ ReplyThorough \/ FinishThorough

SpecThorough == Init /\ [][NextThorough]_vars

----------------------------------------------------------------------------
(* Properties of process_document, checked under Spec                        *)

Returned == pc = "done"
Escaped == pc = "raised"

PyTrue == Bool(TRUE)
IsSuccess(rec) == HasKey(rec, "success") /\ rec["success"] = PyTrue
Pages == result["extracted_content"][2]["pages"][2]
Limit == IF images < 3 THEN images ELSE 3

ResultKeys ==
    {"document_type", "total_pages", "processed_pages", "confidence", "extracted_content", "status"}

\* C1: for every page sequence, every gateway outcome and every reply text,
\* process_document returns a DocumentResult with the six fields and status
\* "success"; no fault escapes to the caller as an exception.
RepliesAreText == \A k \in DOMAIN responses : IsSuccess(responses[k]) => responses[k]["content"][1] = "str"

C1_AlwaysReturnsResult ==
    RepliesAreText =>
        /\ ~Escaped
        /\ Returned => /\ ResultKeys \subseteq DOMAIN result
                       /\ result["status"] = Str(<<"success">>)

\* C2: for every document of P >= 0 pages the result has
\* processed_pages = min(P, 3) and total_pages = P, whatever the gateway did.
C2_PageCounts ==
    Returned => /\ result["processed_pages"] = PyInt(Limit)
                /\ result["total_pages"] = PyInt(images)

C2_Witness ==
    /\ Returned /\ images > 3
    /\ result["processed_pages"] = PyInt(3)
    /\ \E k \in DOMAIN responses : ~IsSuccess(responses[k])

\* C3: document_type is the type of the first page record, in page order, with
\* success = true and a type field, and "document" when there is none; the type
\* "unknown" of a failed page is never selected.
TypedSuccesses == { k \in DOMAIN extractions : IsSuccess(extractions[k]) /\ HasKey(extractions[k], "type") }

C3_TypeOfFirstSuccess ==
    Returned =>
        IF TypedSuccesses = {}
        THEN result["document_type"] = Str(<<"document">>)
        ELSE \E k \in TypedSuccesses :
                /\ \A j \in TypedSuccesses : k <= j
                /\ result["document_type"] = extractions[k]["type"]

C3_Witness ==
    /\ Returned /\ Len(extractions) = 3
    /\ ~IsSuccess(extractions[1])
    /\ IsSuccess(extractions[2]) /\ ~HasKey(extractions[2], "type")
    /\ IsSuccess(extractions[3])
    /\ result["document_type"] = Str(<<"receipt">>)

\* C4: the aggregate confidence is the arithmetic mean of the confidence values
\* of the successful page records only, rounded to 2 decimal places (the nearest
\* hundredth), and 0.6 when no processed page succeeded.
Successes == { k \in DOMAIN extractions : IsSuccess(extractions[k]) }

RECURSIVE SumOfConfidence(_)
SumOfConfidence(ks) ==
    IF ks = {} THEN 0
    ELSE LET k == CHOOSE x \in ks : TRUE
         IN  extractions[k]["confidence"][2] + SumOfConfidence(ks \ {k})

\* h hundredths is total/n rounded to the nearest hundredth
IsRounded(h, total, n) ==
    /\ 2 * (n * h - total) <= n
    /\ 2 * (total - n * h) <= n
    /\ (2 * (n * h - total) = n \/ 2 * (total - n * h) = n) => h % 2 = 0

C4_MeanOfSuccesses ==
    Returned =>
        IF Successes = {}
        THEN result["confidence"] = Flt(60)
        ELSE (\A k \in Successes : /\ HasKey(extractions[k], "confidence")
                                   /\ extractions[k]["confidence"][1] = "num") =>
                /\ result["confidence"][1] = "num"
                /\ IsRounded(result["confidence"][2], SumOfConfidence(Successes), Cardinality(Successes))

C4_Witness ==
    /\ Returned /\ Len(extractions) = 3
    /\ ~IsSuccess(extractions[2])
    /\ IsSuccess(extractions[1]) /\ extractions[1]["confidence"] = Flt(90)
    /\ IsSuccess(extractions[3]) /\ extractions[3]["confidence"] = Flt(75)
    /\ result["confidence"] = Flt(82)

\* C5: extracted_content.pages holds one record per bounded page, in page order:
\* its length is processed_pages, the k-th record has page = k, and its success
\* flag is true exactly when the gateway returned Success for page k, also when
\* the model's JSON carries page or success keys of its own.
C5_OneRecordPerPage ==
    Returned =>
        /\ result["processed_pages"] = PyInt(Len(Pages))
        /\ Len(Pages) = Len(responses)
        /\ \A k \in DOMAIN Pages :
              /\ Pages[k]["page"] = PyInt(k)
              /\ Pages[k]["success"] \in {Bool(TRUE), Bool(FALSE)}
              /\ (Pages[k]["success"] = PyTrue) <=> IsSuccess(responses[k])

C5_Witness ==
    /\ Returned /\ Len(Pages) = 2
    /\ responses[1]["content"] = Str(<<LB, TReceipt, C75, Page7, SuccessFalse, RB>>)
    /\ Pages[1]["page"] = PyInt(1) /\ Pages[1]["success"] = PyTrue
    /\ ~IsSuccess(responses[2]) /\ Pages[2]["success"] = Bool(FALSE)

\* C6: when the gateway returns Failure for page k the page extractor returns
\* {page: k, success: false, error: reason, type: "unknown", confidence: 0.0}
\* and raises nothing; the failure stops at the page boundary: every other
\* bounded page is still sent to the gateway and gets its own record.
FailureRecord(k, reason) ==
    [page |-> PyInt(k), success |-> Bool(FALSE), error |-> reason,
     type |-> Str(<<"unknown">>), confidence |-> Flt(0)]

FailedCalls == { k \in DOMAIN responses : ~IsSuccess(responses[k]) }

C6_FailureStaysInItsPage ==
    /\ \A k \in FailedCalls :
          /\ k \in DOMAIN extractions
          /\ extractions[k] = FailureRecord(k, responses[k]["error"])
    /\ (FailedCalls # {} /\ pc = "loop" /\ i < Limit) => ENABLED Call
    /\ (FailedCalls # {} /\ Returned) =>
          /\ calls = [k \in 1..Limit |-> k]
          /\ Len(Pages) = Limit
    /\ Escaped => \E k \in DOMAIN responses :
                     /\ IsSuccess(responses[k])
                     /\ \/ k \notin DOMAIN extractions
                        \/ /\ HasKey(extractions[k], "confidence")
                           /\ extractions[k]["confidence"][1] \notin {"num", "int", "bool"}

C6_Witness ==
    /\ Returned /\ Len(Pages) = 3
    /\ FailedCalls = {1}
    /\ responses[1]["error"] = Str(<<"Request timeout">>)
    /\ IsSuccess(Pages[2]) /\ IsSuccess(Pages[3])

----------------------------------------------------------------------------
(* The gateway, checked under Spec                                           *)

\* C10: query never raises to the caller: whatever the request meets (image
\* encoding error, timeout, connection or HTTP error, non-JSON body, body
\* without choices, choice without message content) it returns a tagged result
\* with exactly one variant populated: success = true with content, or
\* success = false with an error reason.
C10_QueryReturnsTaggedResult ==
    /\ pc # "query" => Len(responses) = Len(calls)
    /\ \A k \in DOMAIN responses :
          LET r == responses[k] IN
          /\ HasKey(r, "success") /\ r["success"] \in {Bool(TRUE), Bool(FALSE)}
          /\ r["success"] = PyTrue => HasKey(r, "content") /\ ~HasKey(r, "error")
          /\ r["success"] # PyTrue => /\ HasKey(r, "error")
                                     /\ r["error"][1] = "str" /\ r["error"][2] # <<>>
                                     /\ r["content"] = Str(<<>>)

C10_Witness ==
    /\ Len(responses) = 3
    /\ ~IsSuccess(responses[1]) /\ responses[1]["error"] = Str(<<"Unsupported image input type">>)
    /\ ~IsSuccess(responses[2]) /\ responses[2]["error"] = Str(<<"'content'">>)
    /\ IsSuccess(responses[3]) /\ responses[3]["content"] = Null

----------------------------------------------------------------------------
(* Properties of _parse_json, checked under SpecNorm                         *)

Normalized == pc = "parsed"
RawIsText == raw[1] = "str"
Cleaned == StripFences(StripThink(raw[2]))
SpanFound == ReSearch(Cleaned).found
SpanParses == SpanFound /\ JsonLoads(SubSeq(Cleaned, ReSearch(Cleaned).first, ReSearch(Cleaned).last)).ok

\* C7: _parse_json is total: for every reply the gateway can hand it on Success
\* (any text, also one whose JSON object omits type or confidence, and a null
\* content) it raises nothing and returns a mapping with at least the keys type
\* and confidence.
C7_NormalizerTotal ==
    Normalized => /\ ~parsed.raised
                  /\ {"type", "confidence"} \subseteq DOMAIN parsed.val

\* C8: round trip: for every well-formed JSON object j and every wrapping of it
\* in code fences and/or a preceding think block, _parse_json returns exactly j.
C8_RoundTripEveryObject ==
    (Normalized /\ wrapped # NoJson) => parsed = Return(wrapped[2])

\* how deep braces nest below the object's own, and whether every string is
\* free of braces, fence markers and think tags
RECURSIVE NestingDepth(_)
NestingDepth(d) ==
    IF HasKey(d, "key_data") THEN 1 + NestingDepth(d["key_data"][2]) ELSE 0

PlainText(s) == \A k \in DOMAIN s : s[k] \notin {LB, RB, Fence, FenceJson, ThinkOpen, ThinkClose}

RECURSIVE PlainStrings(_)
PlainStrings(d) ==
    /\ HasKey(d, "main_content") => PlainText(d["main_content"][2])
    /\ HasKey(d, "key_data") => PlainStrings(d["key_data"][2])

\* C8 as amended: the round trip holds for every object whose braces nest at most
\* one level below its own and whose strings hold no brace, fence marker or
\* think tag.
C8_RoundTripSupportedObject ==
    (Normalized /\ wrapped # NoJson /\ NestingDepth(wrapped[2]) <= 1 /\ PlainStrings(wrapped[2]))
        => parsed = Return(wrapped[2])

C8_Witness ==
    /\ Normalized
    /\ raw = Str(Wrap("think_fence", <<LB, MainContent, Txt, Quote, KeyData, LB, TInvoice, C90, RB, RB>>))
    /\ wrapped # NoJson /\ NestingDepth(wrapped[2]) = 1
    /\ parsed = Return(wrapped[2])

\* C9: for every raw text from which no JSON object can be located or parsed the
\* normalizer returns the degraded record: type "document", confidence 0.6 when
\* no brace span is found and 0.5 when parsing the span fails, and an excerpt of
\* the text of at most 200 characters; nothing else.
C9_DegradedRecord ==
    (Normalized /\ RawIsText /\ ~SpanParses) =>
        /\ ~parsed.raised
        /\ parsed.val["type"] = Str(<<"document">>)
        /\ IF SpanFound
           THEN /\ DOMAIN parsed.val = {"type", "confidence", "raw"}
                /\ parsed.val["confidence"] = Flt(50)
                /\ parsed.val["raw"][1] = "str" /\ StrLen(parsed.val["raw"]) <= 200
           ELSE /\ DOMAIN parsed.val = {"type", "confidence", "main_content"}
                /\ parsed.val["confidence"] = Flt(60)
                /\ parsed.val["main_content"][1] = "str" /\ StrLen(parsed.val["main_content"]) <= 200

C9_Witness ==
    /\ Normalized /\ RawIsText /\ SpanFound /\ ~SpanParses
    /\ StrLen(raw) > 200
    /\ parsed.val["confidence"] = Flt(50)
    /\ StrLen(parsed.val["raw"]) = 200

----------------------------------------------------------------------------
(* Further properties of process_document and the gateway, under Spec        *)

InUnitInterval(v) ==
    \/ v[1] = "num" /\ 0 <= v[2] /\ v[2] <= 100
    \/ v[1] = "int" /\ 0 <= v[2] /\ v[2] <= 1

C14_ConfidenceInRange ==
    Returned =>
        /\ InUnitInterval(result["confidence"])
        /\ \A k \in DOMAIN Pages :
              HasKey(Pages[k], "confidence") /\ InUnitInterval(Pages[k]["confidence"])

\* C15: the note is the truncation message exactly when pages were dropped
\* (total_pages > processed_pages), and the plain "Fast mode" note otherwise.
TruncationNote == Str(<<"Fast mode - first 3 pages only">>)
PlainNote == Str(<<"Fast mode">>)

C15_NoteIffTruncated ==
    Returned =>
        /\ HasKey(result, "note")
        /\ IF result["total_pages"][2] > result["processed_pages"][2]
           THEN result["note"] = TruncationNote
           ELSE result["note"] = PlainNote

C15_Witness ==
    /\ Returned /\ images = 4
    /\ result["processed_pages"] = PyInt(3)
    /\ result["note"] = TruncationNote

\* C16: gateway calls are sequential and single-attempt: the pages are queried
\* in order 1, 2, ..., each once, never beyond the third; the call for the next
\* page is issued only after the previous one returned; and a run issues
\* exactly min(P, 3) calls in total.
Over == pc \in {"done", "raised"}

C16_OneAtATime ==
    /\ calls = [k \in 1..Len(calls) |-> k]
    /\ Len(calls) <= Limit
    /\ IF pc = "query" THEN Len(calls) = Len(responses) + 1
                        ELSE Len(calls) = Len(responses)

C16_SequentialSingleAttempt ==
    /\ C16_OneAtATime
    /\ Over => Len(calls) = Limit

----------------------------------------------------------------------------
(* A further property of _parse_json, under SpecNorm                          *)

RECURSIVE Count(_, _)
Count(s, t) == IF s = <<>> THEN 0 ELSE (IF Head(s) = t THEN 1 ELSE 0) + Count(Tail(s), t)

\* the reply holds no other object than the wrapped one: no brace in a think block
OnlyObject == Count(raw[2], LB) = Count(StripThink(raw[2]), LB)

IsDegraded(v) ==
    /\ HasKey(v, "type") /\ v["type"] = Str(<<"document">>)
    /\ \/ DOMAIN v = {"type", "confidence", "raw"} /\ v["confidence"] = Flt(50)
       \/ DOMAIN v = {"type", "confidence", "main_content"} /\ v["confidence"] = Flt(60)

\* C17: for a reply whose only JSON object nests braces two or more levels
\* below its own, _parse_json returns that whole object or the degraded record,
\* never a proper sub-object.
C17_WholeOrDegraded ==
    (Normalized /\ wrapped # NoJson /\ NestingDepth(wrapped[2]) >= 2 /\ OnlyObject)
        => /\ ~parsed.raised
           /\ parsed.val = wrapped[2] \/ IsDegraded(parsed.val)

----------------------------------------------------------------------------
(* Properties of the thorough profile, checked under SpecThorough            *)

\* C13 without its last part: the pages are sent to the gateway in page order,
\* each once, one call at a time, and no page is skipped after a failed one
C13_PagesInOrder ==
    /\ calls = [k \in 1..Len(calls) |-> k]
    /\ Len(calls) <= images
    /\ IF pc = "query" THEN Len(calls) = Len(responses) + 1
                        ELSE Len(calls) = Len(responses)
    /\ (pc = "loop" /\ i < images) => ENABLED CallThorough

\* C13: under the thorough profile, for every page sequence of length P >= 0,
\* every page is sent to the gateway exactly once in page order, no page is
\* skipped after an earlier page fails, and the call returns a DocumentResult
\* whose total_pages = P.
C13_EveryPageThenResult ==
    /\ C13_PagesInOrder
    /\ ~Escaped
    /\ Returned => /\ Len(calls) = images
                   /\ result["total_pages"] = PyInt(images)

\* what the fast profile makes of the same gateway outcomes
RECURSIVE FastExtractions(_, _)
FastExtractions(resps, k) ==
    IF k > Len(resps) THEN Return(<<>>)
    ELSE LET e == _extract_page_fast(resps[k], k)
             rest == FastExtractions(resps, k + 1)
         IN  IF e.raised THEN e
             ELSE IF rest.raised THEN rest
             ELSE Return(<<e.val>> \o rest.val)

FastRun ==
    LET exts == FastExtractions(responses, 1)
    IN  IF exts.raised THEN exts ELSE _combine_simple(exts.val, images)

SameParsed ==
    \A k \in DOMAIN responses :
        IsSuccess(responses[k]) =>
            _parse_json(responses[k]["content"]) = _parse_response(responses[k]["content"])

BothReturn == Returned /\ ~FastRun.raised

C12_SameOutcome == Returned <=> ~FastRun.raised
C12_SameType == BothReturn => result["document_type"] = FastRun.val["document_type"]
C12_SameConfidence == BothReturn => result["confidence"] = FastRun.val["confidence"]
C12_SameFailureRecords ==
    BothReturn => \A k \in FailedCalls :
                     DOMAIN extractions[k] = DOMAIN FastExtractions(responses, 1).val[k]
C12_SameResultShape == BothReturn => DOMAIN result = DOMAIN FastRun.val

\* C12: the two profiles implement the same pipeline: on the same pages (at
\* most 3), with the same gateway outcomes and the same parsed content per
\* page, they agree on whether a result is returned, on the document type, on
\* the aggregate confidence, on the shape of failure records and on the shape
\* of the result.
C12_ProfilesAgree ==
    (Over /\ images \in 1..3 /\ SameParsed) =>
        /\ C12_SameOutcome
        /\ C12_SameType
        /\ C12_SameConfidence
        /\ C12_SameFailureRecords
        /\ C12_SameResultShape
====
